---- MODULE Spec2Model ----
(***************************************************************************)
(* Model of the two Flask services of the repository:                      *)
(*   src/app.py                   users service  (GET /users, POST /users) *)
(*   src/many_to_many_example.py  tagging service (POST/DELETE             *)
(*                                /posts/<id>/tags, GET /tags, GET /posts) *)
(* Each service owns one SQLite database.  A table is the set of its rows; *)
(* the association table post_tags is a bag of rows, so that what its      *)
(* composite primary key forbids can be expressed.  to_dict is the         *)
(* serializer of SerializerMixin driven by the serialize_rules the model   *)
(* classes declare.                                                        *)
(***************************************************************************)
EXTENDS Integers, Sequences, FiniteSets, Bags, TLC

VARIABLES
    users,       \* tagging service: rows of table users
    posts,       \* tagging service: rows of table posts
    tags,        \* tagging service: rows of table tags
    post_tags,   \* tagging service: bag of rows of the association table
    app_users,   \* users service: rows of table users
    app_posts,   \* users service: rows of table posts
    response,    \* the last response a service sent
    sess         \* worker thread -> the request it is serving (its db.session)

vars == <<users, posts, tags, post_tags, app_users, app_posts, response, sess>>

---------------------------------------------------------------------------
\* Bounds of the model.

\* Requests carry one of the first MaxNames names of NamePool as tag_name.
MaxNames == 4
\* create_user is accepted while fewer than MaxUsers users exist.
MaxUsers == 4
\* Nesting depth after which to_dict is taken not to return (RecursionError).
MaxDepth == 8

NamePool == <<"beginner", "tutorial", "python", "flask", "sqlalchemy", "orm">>
TagNames == {NamePool[i] : i \in 1..MaxNames}
UserNames == {"John Doe", "Jane Roe", "Ann Poe"}
Threads == {"w1", "w2"}

\* A NULL column value (Post.user_id is a nullable foreign key).
NULL == 0
\* Python's None in a serialization.
None == [none |-> TRUE]

---------------------------------------------------------------------------
\* The databases.

DB == [users |-> users, posts |-> posts, tags |-> tags, post_tags |-> post_tags]
AppDB == [users |-> app_users, posts |-> app_posts, tags |-> {},
          post_tags |-> EmptyBag]

Ids(rows) == {r.id : r \in rows}

\* id = db.Column(db.Integer, primary_key=True): SQLite gives a new row the
\* largest id of the table plus one.
NextId(rows) ==
    IF rows = {} THEN 1
    ELSE 1 + CHOOSE i \in Ids(rows) : \A j \in Ids(rows) : j <= i

RECURSIVE SortById(_)
SortById(rows) ==
    IF rows = {} THEN <<>>
    ELSE LET r == CHOOSE x \in rows : \A y \in rows : x.id <= y.id
         IN  <<r>> \o SortById(rows \ {r})

RECURSIVE Replicate(_, _)
Replicate(x, n) == IF n = 0 THEN <<>> ELSE <<x>> \o Replicate(x, n - 1)

RECURSIVE Concat(_)
Concat(ss) == IF ss = <<>> THEN <<>> ELSE Head(ss) \o Concat(Tail(ss))

AssocRow(post_id, tag_id) == [post_id |-> post_id, tag_id |-> tag_id]

\* Post.tags: the tags joined to the post through post_tags, one entry per
\* association row.
PostTags(db, post) ==
    LET ts == SortById(db.tags)
    IN  Concat([i \in 1..Len(ts) |->
            Replicate(ts[i], CopiesIn(AssocRow(post.id, ts[i].id), db.post_tags))])

\* Tag.posts: the posts joined to the tag through post_tags.
TagPosts(db, tag) ==
    LET ps == SortById(db.posts)
    IN  Concat([i \in 1..Len(ps) |->
            Replicate(ps[i], CopiesIn(AssocRow(ps[i].id, tag.id), db.post_tags))])

\* User.posts: the posts whose user_id is the user's id.
UserPosts(db, user) == SortById({p \in db.posts : p.user_id = user.id})

\* Post.user: the user the post's user_id names, if any.
PostUser(db, post) == SortById({u \in db.users : u.id = post.user_id})

---------------------------------------------------------------------------
\* Serialization (SerializerMixin.to_dict under the declared serialize_rules).
\* A rule "-a.b" is the path <<"a", "b">>.

AppUserRules == {<<"posts", "user">>}
AppPostRules == {<<"user", "posts">>}
M2MTagRules == {}
\* Variants of Post.serialize_rules with one rule left out.
M2MPostRules_NoUserPosts == {<<"tags", "posts">>}
M2MPostRules_NoTagsPosts == {<<"user", "posts">>}
M2MPostRules == {<<"user", "posts">>, <<"tags", "posts">>}
M2MUserRules == {<<"posts", "user">>}

SerializeRules(m, kind) ==
    CASE m = "app" /\ kind = "User" -> AppUserRules
      [] m = "app" /\ kind = "Post" -> AppPostRules
      [] m = "m2m" /\ kind = "Tag"  -> M2MTagRules
      [] m = "m2m" /\ kind = "Post" -> M2MPostRules
      [] m = "m2m" /\ kind = "User" -> M2MUserRules

Columns(kind) ==
    CASE kind = "User" -> {"id", "name"}
      [] kind = "Tag"  -> {"id", "name"}
      [] kind = "Post" -> {"id", "title", "content", "user_id"}

Relationships(m, kind) ==
    CASE kind = "User" -> {"posts"}
      [] kind = "Tag"  -> {"posts"}
      [] kind = "Post" -> IF m = "m2m" THEN {"user", "tags"} ELSE {"user"}

Target(key) ==
    CASE key = "posts" -> "Post"
      [] key = "tags"  -> "Tag"
      [] key = "user"  -> "User"

IsList(key) == key \in {"posts", "tags"}

Related(db, kind, row, key) ==
    CASE kind = "User" /\ key = "posts" -> UserPosts(db, row)
      [] kind = "Tag"  /\ key = "posts" -> TagPosts(db, row)
      [] kind = "Post" /\ key = "tags"  -> PostTags(db, row)
      [] kind = "Post" /\ key = "user"  -> PostUser(db, row)

\* The rules that apply below attribute key.
Fork(rules, key) == {Tail(r) : r \in {x \in rules : Len(x) > 1 /\ x[1] = key}}

\* An attribute is left out exactly when a rule ends at it.
IsIncluded(rules, key) == <<key>> \notin rules

\* What a model instance adds at its nesting level: its class's serialize_rules
\* join the rules in force there.
Schema(m, kind, rules) == rules \cup SerializeRules(m, kind)

\* The attributes serialized under a schema: columns and relationships alike,
\* but for the excluded ones.
IncludedKeys(m, kind, schema) ==
    {k \in Columns(kind) \cup Relationships(m, kind) : IsIncluded(schema, k)}

\* The serialization of one model instance: a mapping from each included
\* attribute to the column's value, or to the serialization of the related
\* instance (None without one), or to the list of those of the related
\* instances, each under the rules forked for the attribute.
RECURSIVE SerializeModel(_, _, _, _, _, _)
SerializeModel(m, db, kind, row, rules, fuel) ==
    IF fuel = 0 THEN None
    ELSE
      [k \in IncludedKeys(m, kind, Schema(m, kind, rules)) |->
          IF k \in Columns(kind) THEN row[k]
          ELSE IF IsList(k)
          THEN [i \in 1..Len(Related(db, kind, row, k)) |->
                   SerializeModel(m, db, Target(k), Related(db, kind, row, k)[i],
                                  Fork(Schema(m, kind, rules), k), fuel - 1)]
          ELSE IF Related(db, kind, row, k) = <<>> THEN None
          ELSE SerializeModel(m, db, Target(k), Related(db, kind, row, k)[1],
                              Fork(Schema(m, kind, rules), k), fuel - 1)]

\* Whether the serialization of the instance returns: it does not when the
\* walk over the relationships is still descending after fuel levels.
RECURSIVE Returns(_, _, _, _, _, _)
Returns(m, db, kind, row, rules, fuel) ==
    /\ fuel > 0
    /\ \A k \in IncludedKeys(m, kind, Schema(m, kind, rules)) \ Columns(kind) :
          \A i \in 1..Len(Related(db, kind, row, k)) :
              Returns(m, db, Target(k), Related(db, kind, row, k)[i],
                      Fork(Schema(m, kind, rules), k), fuel - 1)

\* x.to_dict(): ok is FALSE when the call ends in a RecursionError.
to_dict(m, db, kind, row) ==
    IF Returns(m, db, kind, row, {}, MaxDepth)
    THEN [ok |-> TRUE, val |-> SerializeModel(m, db, kind, row, {}, MaxDepth)]
    ELSE [ok |-> FALSE, val |-> None]

\* [x.to_dict() for x in rows]
to_dict_all(m, db, kind, rows) ==
    [ok |-> \A r \in rows : to_dict(m, db, kind, r).ok,
     val |-> [i \in 1..Cardinality(rows) |->
                 to_dict(m, db, kind, SortById(rows)[i]).val]]

---------------------------------------------------------------------------
\* Constraints the schema declares.

\* Variant: Tag.name declared without unique=True.
TagNameUnique_Undeclared(tbl, name) == TRUE

\* Tag.name: unique=True.  An INSERT of a second tag with the name fails.
TagNameUnique(tbl, name) == \A t \in tbl : t.name # name

\* post_tags: (post_id, tag_id) is the primary key.  An INSERT of a second
\* row for the pair fails.
PostTagsPrimaryKey(bag, row) == ~BagIn(row, bag)

---------------------------------------------------------------------------
\* Requests and the session of the thread serving one.

AddReq(post_id, tag_name) ==
    [op |-> "add_tag_to_post", post_id |-> post_id, tag_name |-> tag_name]
RemoveReq(post_id, tag_id) ==
    [op |-> "remove_tag_from_post", post_id |-> post_id, tag_id |-> tag_id]

Idle == [pc |-> "idle"]
NoResponse == [req |-> [op |-> "none"], status |-> 0, error |-> "", body |-> None]

\* A request at the start of its handler: nothing looked up, nothing pending.
\*   tag_id  the Tag the handler holds (NULL: none, or one not yet inserted)
\*   new     the Tag was constructed by the handler and is pending in the session
\*   change  the handler appended to / removed from post.tags
NewSession(req) ==
    [req |-> req, pc |-> "get_post", tag_id |-> NULL, new |-> FALSE,
     change |-> FALSE, status |-> 0, error |-> "", body |-> None]

Finish(s, status, error, body) ==
    [s EXCEPT !.pc = "done", !.status = status, !.error = error, !.body = body]

Response(s) ==
    [req |-> s.req, status |-> s.status, error |-> s.error, body |-> s.body]

\* Variant: Model.query.get(id), whose None the handler then dereferences.
get_or_none(rows, id) ==
    LET hit == {r \in rows : r.id = id}
    IN  IF hit = {} THEN [found |-> FALSE, status |-> 500, error |-> "AttributeError"]
        ELSE [found |-> TRUE, status |-> 200, error |-> ""]

\* Model.query.get_or_404(id): the row, or the request is aborted with 404.
get_or_404(rows, id) ==
    LET hit == {r \in rows : r.id = id}
    IN  IF hit = {} THEN [found |-> FALSE, status |-> 404, error |-> "NotFound"]
        ELSE [found |-> TRUE, status |-> 200, error |-> ""]

RowById(rows, id) == CHOOSE r \in rows : r.id = id

\* jsonify(post.to_dict()), 200: the post is reloaded after the commit.
PostResponse(db, s) ==
    LET d == to_dict("m2m", db, "Post", RowById(db.posts, s.req.post_id))
    IN  IF d.ok THEN Finish(s, 200, "", d.val)
        ELSE Finish(s, 500, "RecursionError", None)

\* post = Post.query.get_or_404(post_id)
GetPost(db, s, next) ==
    LET g == get_or_404(db.posts, s.req.post_id)
    IN  IF g.found THEN [s EXCEPT !.pc = next]
        ELSE Finish(s, g.status, g.error, None)

\* tag = Tag.query.filter_by(name=data["tag_name"]).first()
\* if not tag: tag = Tag(name=data["tag_name"]); db.session.add(tag)
FindOrCreateTag(db, s) ==
    LET hit == {t \in db.tags : t.name = s.req.tag_name}
    IN  IF hit = {}
        THEN [s EXCEPT !.pc = "check", !.new = TRUE]
        ELSE [s EXCEPT !.pc = "check", !.tag_id = SortById(hit)[1].id]

\* Variant: the membership test inverted (if tag in post.tags).
AppendIfAbsent_Inverted(db, s) ==
    LET member == ~s.new /\ BagIn(AssocRow(s.req.post_id, s.tag_id), db.post_tags)
    IN  [s EXCEPT !.pc = "commit", !.change = member]

\* if tag not in post.tags: post.tags.append(tag)
AppendIfAbsent(db, s) ==
    LET member == ~s.new /\ BagIn(AssocRow(s.req.post_id, s.tag_id), db.post_tags)
    IN  [s EXCEPT !.pc = "commit", !.change = ~member]

\* db.session.commit() of add_tag_to_post: INSERT the pending Tag, INSERT the
\* association row; a constraint violation raises IntegrityError and nothing
\* of the transaction is kept.
CommitAdd(db, s) ==
    LET tid == IF s.new THEN NextId(db.tags) ELSE s.tag_id
        row == AssocRow(s.req.post_id, tid)
        ok  == /\ s.new => TagNameUnique(db.tags, s.req.tag_name)
               /\ s.change => PostTagsPrimaryKey(db.post_tags, row)
        ndb == [db EXCEPT
                  !.tags = IF s.new
                           THEN @ \cup {[id |-> tid, name |-> s.req.tag_name]}
                           ELSE @,
                  !.post_tags = IF s.change THEN @ (+) SetToBag({row}) ELSE @]
    IN  IF ok THEN [db |-> ndb, s |-> PostResponse(ndb, s)]
        ELSE [db |-> db, s |-> Finish(s, 500, "IntegrityError", None)]

\* tag = Tag.query.get_or_404(tag_id)
GetTag(db, s) ==
    LET g == get_or_404(db.tags, s.req.tag_id)
    IN  IF g.found THEN [s EXCEPT !.pc = "check", !.tag_id = s.req.tag_id]
        ELSE Finish(s, g.status, g.error, None)

\* Variant: post.tags.remove(tag) without the membership test; list.remove
\* raises ValueError for an absent tag.
RemoveIfPresent_Unguarded(db, s) ==
    IF BagIn(AssocRow(s.req.post_id, s.tag_id), db.post_tags)
    THEN [s EXCEPT !.pc = "commit", !.change = TRUE]
    ELSE Finish(s, 500, "ValueError", None)

\* if tag in post.tags: post.tags.remove(tag)
RemoveIfPresent(db, s) ==
    [s EXCEPT !.pc = "commit",
              !.change = BagIn(AssocRow(s.req.post_id, s.tag_id), db.post_tags)]

\* db.session.commit() of remove_tag_from_post: DELETE the association row;
\* the unit of work expects the DELETE to match one row (StaleDataError).
CommitRemove(db, s) ==
    LET row == AssocRow(s.req.post_id, s.tag_id)
        ndb == [db EXCEPT !.post_tags = @ (-) SetToBag({row})]
    IN  IF ~s.change THEN [db |-> db, s |-> PostResponse(db, s)]
        ELSE IF CopiesIn(row, db.post_tags) = 1
             THEN [db |-> ndb, s |-> PostResponse(ndb, s)]
             ELSE [db |-> db, s |-> Finish(s, 500, "StaleDataError", None)]

\* Variant: the tag found or created, and committed, ahead of the lookup of
\* the post.
AddStep_TagFirst(db, s) ==
    CASE s.pc = "get_post" ->
           LET created ==
                 IF \E t \in db.tags : t.name = s.req.tag_name THEN db
                 ELSE [db EXCEPT !.tags = @ \cup {[id |-> NextId(db.tags),
                                                    name |-> s.req.tag_name]}]
           IN  [db |-> created, s |-> GetPost(created, s, "find_tag")]
      [] s.pc = "find_tag" -> [db |-> db, s |-> FindOrCreateTag(db, s)]
      [] s.pc = "check"    -> [db |-> db, s |-> AppendIfAbsent(db, s)]
      [] s.pc = "commit"   -> CommitAdd(db, s)

\* One step of a handler: the statements up to its next access to the database.
AddStep(db, s) ==
    CASE s.pc = "get_post" -> [db |-> db, s |-> GetPost(db, s, "find_tag")]
      [] s.pc = "find_tag" -> [db |-> db, s |-> FindOrCreateTag(db, s)]
      [] s.pc = "check"    -> [db |-> db, s |-> AppendIfAbsent(db, s)]
      [] s.pc = "commit"   -> CommitAdd(db, s)

RemoveStep(db, s) ==
    CASE s.pc = "get_post" -> [db |-> db, s |-> GetPost(db, s, "get_tag")]
      [] s.pc = "get_tag"  -> [db |-> db, s |-> GetTag(db, s)]
      [] s.pc = "check"    -> [db |-> db, s |-> RemoveIfPresent(db, s)]
      [] s.pc = "commit"   -> CommitRemove(db, s)

Step(db, s) ==
    IF s.req.op = "add_tag_to_post" THEN AddStep(db, s) ELSE RemoveStep(db, s)

\* A handler run from its first statement to its response with no other
\* request in between.
RECURSIVE Run(_, _)
Run(db, s) ==
    IF s.pc = "done" THEN [db |-> db, s |-> s]
    ELSE LET r == Step(db, s) IN Run(r.db, r.s)

---------------------------------------------------------------------------
\* The tagging service (src/many_to_many_example.py), one request at a time.

\* Ids a request may name: those of the rows, and one that names no row.
IdInputs(rows) == Ids(rows) \cup {NextId(rows)}

Store(db) ==
    /\ users' = db.users
    /\ posts' = db.posts
    /\ tags' = db.tags
    /\ post_tags' = db.post_tags

add_tag_to_post ==
    \E post_id \in IdInputs(posts), tag_name \in TagNames :
        LET r == Run(DB, NewSession(AddReq(post_id, tag_name)))
        IN  /\ Store(r.db)
            /\ response' = Response(r.s)
            /\ UNCHANGED <<app_users, app_posts, sess>>

remove_tag_from_post ==
    \E post_id \in IdInputs(posts), tag_id \in IdInputs(tags) :
        LET r == Run(DB, NewSession(RemoveReq(post_id, tag_id)))
        IN  /\ Store(r.db)
            /\ response' = Response(r.s)
            /\ UNCHANGED <<app_users, app_posts, sess>>

ListResponse(op, d) ==
    IF d.ok THEN [req |-> [op |-> op], status |-> 200, error |-> "", body |-> d.val]
    ELSE [req |-> [op |-> op], status |-> 500, error |-> "RecursionError",
          body |-> None]

get_tags ==
    /\ response' = ListResponse("get_tags", to_dict_all("m2m", DB, "Tag", tags))
    /\ UNCHANGED <<users, posts, tags, post_tags, app_users, app_posts, sess>>

get_posts ==
    /\ response' = ListResponse("get_posts", to_dict_all("m2m", DB, "Post", posts))
    /\ UNCHANGED <<users, posts, tags, post_tags, app_users, app_posts, sess>>

\* The state after startup: the users service has created its empty tables;
\* the tagging service has created its tables and committed its demo data.
Init ==
    /\ users = {[id |-> 1, name |-> "John Doe"]}
    /\ posts = {[id |-> 1, title |-> "My First Post", content |-> "Hello World!",
                 user_id |-> 1]}
    /\ tags = {[id |-> 1, name |-> "beginner"], [id |-> 2, name |-> "tutorial"]}
    /\ post_tags = SetToBag({AssocRow(1, 1), AssocRow(1, 2)})
    /\ app_users = {}
    /\ app_posts = {}
    /\ response = NoResponse
    /\ sess = [t \in Threads |-> Idle]

Next ==
    \/ add_tag_to_post
    \/ remove_tag_from_post
    \/ get_tags
    \/ get_posts

Spec == Init /\ [][Next]_vars

---------------------------------------------------------------------------
\* The users service (src/app.py).

\* Variant: the commit without db.session.add(new_user).
SessionAdd_Forgotten(rows, row) == rows

\* db.session.add(new_user); db.session.commit()
SessionAdd(rows, row) == rows \cup {row}

create_user ==
    \E name \in UserNames :
        LET new_user == [id |-> NextId(app_users), name |-> name]
            ndb == [AppDB EXCEPT !.users = SessionAdd(@, new_user)]
            d == to_dict("app", ndb, "User", new_user)
        IN  /\ Cardinality(app_users) < MaxUsers
            /\ app_users' = ndb.users
            /\ response' =
                 IF d.ok
                 THEN [req |-> [op |-> "create_user", name |-> name],
                       status |-> 201, error |-> "", body |-> d.val]
                 ELSE [req |-> [op |-> "create_user", name |-> name],
                       status |-> 500, error |-> "RecursionError", body |-> None]
            /\ UNCHANGED <<users, posts, tags, post_tags, app_posts, sess>>

get_users ==
    /\ response' = ListResponse("get_users",
                                to_dict_all("app", AppDB, "User", app_users))
    /\ UNCHANGED <<users, posts, tags, post_tags, app_users, app_posts, sess>>

NextApp ==
    \/ create_user
    \/ get_users

SpecApp == Init /\ [][NextApp]_vars

---------------------------------------------------------------------------
\* The tagging service's database under the unit of work the relationship
\* User.posts declares for the deletion of a User.  No route deletes a User;
\* DeleteUser is db.session.delete(user); db.session.commit().

\* Variant: the relationship declared without cascade.
UserPostsCascade_Default == {"save-update", "merge"}

\* cascade="all, delete-orphan"
UserPostsCascade == {"all", "delete-orphan"}

\* With the delete cascade the user's posts are deleted with it, and with
\* each post its rows of the association table; without, the posts stay and
\* their user_id is set to NULL.
session_delete_user(db, u) ==
    LET owned == {p \in db.posts : p.user_id = u.id}
    IN  IF UserPostsCascade \cap {"all", "delete"} # {}
        THEN [db EXCEPT
                !.users = @ \ {u},
                !.posts = @ \ owned,
                !.post_tags = [r \in {x \in DOMAIN @ : x.post_id \notin Ids(owned)}
                                 |-> @[r]]]
        ELSE [db EXCEPT
                !.users = @ \ {u},
                !.posts = (@ \ owned) \cup
                          {[p EXCEPT !.user_id = NULL] : p \in owned}]

DeleteUser ==
    \E u \in users :
        /\ Store(session_delete_user(DB, u))
        /\ UNCHANGED <<app_users, app_posts, response, sess>>

NextOrm ==
    \/ Next
    \/ DeleteUser

SpecOrm == Init /\ [][NextOrm]_vars

---------------------------------------------------------------------------
\* The tagging service with two worker threads (the development server runs
\* threaded): each thread serves one request at a time with its own session,
\* and the threads interleave between the statements that access the
\* database.  A thread's pending INSERTs reach the database at its commit.

\* A thread takes a request and looks its post up.
Receive(t, req) ==
    /\ sess[t].pc = "idle"
    /\ LET r == Step(DB, NewSession(req))
       IN  IF r.s.pc = "done"
           THEN /\ response' = Response(r.s)
                /\ UNCHANGED sess
           ELSE /\ sess' = [sess EXCEPT ![t] = r.s]
                /\ UNCHANGED response
    /\ UNCHANGED <<users, posts, tags, post_tags, app_users, app_posts>>

\* The names the interleaved requests carry: one of a tag the demo data holds
\* and one of a tag no row holds at startup.
ConcTagNames == {NamePool[1], NamePool[3]}

ReceiveAdd(t) ==
    \E post_id \in IdInputs(posts), tag_name \in ConcTagNames :
        Receive(t, AddReq(post_id, tag_name))

ReceiveRemove(t) ==
    \E post_id \in IdInputs(posts), tag_id \in IdInputs(tags) :
        Receive(t, RemoveReq(post_id, tag_id))

\* A thread at pc of handler op runs to its next access to the database, or
\* to its response.
Advance(t, op, pc) ==
    /\ sess[t].pc = pc
    /\ sess[t].req.op = op
    /\ LET r == Step(DB, sess[t])
       IN  /\ Store(r.db)
           /\ IF r.s.pc = "done"
              THEN /\ response' = Response(r.s)
                   /\ sess' = [sess EXCEPT ![t] = Idle]
              ELSE /\ sess' = [sess EXCEPT ![t] = r.s]
                   /\ UNCHANGED response
    /\ UNCHANGED <<app_users, app_posts>>

AddFindTag(t) == Advance(t, "add_tag_to_post", "find_tag")
AddCheck(t) == Advance(t, "add_tag_to_post", "check")
AddCommit(t) == Advance(t, "add_tag_to_post", "commit")
RemoveGetTag(t) == Advance(t, "remove_tag_from_post", "get_tag")
RemoveCheck(t) == Advance(t, "remove_tag_from_post", "check")
RemoveCommit(t) == Advance(t, "remove_tag_from_post", "commit")

NextConc ==
    \E t \in Threads :
        \/ ReceiveAdd(t)
        \/ ReceiveRemove(t)
        \/ AddFindTag(t)
        \/ AddCheck(t)
        \/ AddCommit(t)
        \/ RemoveGetTag(t)
        \/ RemoveCheck(t)
        \/ RemoveCommit(t)

SpecConc == Init /\ [][NextConc]_vars

---------------------------------------------------------------------------
\* Properties.

IsAdd(r) == r.req.op = "add_tag_to_post"
IsRemove(r) == r.req.op = "remove_tag_from_post"

\* How many entries of the tag list of post post_id are tags named name.
CountNamed(db, post_id, name) ==
    Cardinality({i \in 1..Len(PostTags(db, [id |-> post_id])) :
                    PostTags(db, [id |-> post_id])[i].name = name})

AllTagNames == {NamePool[i] : i \in 1..Len(NamePool)}

TaggingTablesUnchanged == UNCHANGED <<users, posts, tags, post_tags>>

\* The parts of C1.
C1_NeverTwice ==
    \A p \in posts, n \in AllTagNames : CountNamed(DB, p.id, n) <= 1

C1_AttachedAfterAdd ==
    (IsAdd(response) /\ response.status = 200)
        => CountNamed(DB, response.req.post_id, response.req.tag_name) = 1

C1_SecondAddChangesNothing ==
    (/\ IsAdd(response')
     /\ CountNamed(DB, response'.req.post_id, response'.req.tag_name) >= 1)
        => UNCHANGED <<tags, post_tags>>

C1_OnlyRemoveDetaches ==
    \A p \in posts, n \in AllTagNames :
        CountNamed(DB', p.id, n) < CountNamed(DB, p.id, n)
            => /\ IsRemove(response')
               /\ response'.status = 200
               /\ response'.req.post_id = p.id
               /\ \E t \in tags : t.id = response'.req.tag_id /\ t.name = n

\* C1: attaching a tag to a post is idempotent.  No post ever lists a tag name
\* twice; when add_tag_to_post(p, n) has answered 200 the tag named n is in
\* p's tag list exactly once; an add_tag_to_post(p, n) that finds n attached
\* to p leaves the tags and the associations as they are; and only a
\* remove_tag_from_post of p takes a name off p's tag list.
C1_IdempotentAttach ==
    /\ [](C1_NeverTwice /\ C1_AttachedAfterAdd)
    /\ [][C1_SecondAddChangesNothing /\ C1_OnlyRemoveDetaches]_vars

\* C1's case: add_tag_to_post(1, "beginner") answered 200 with both tags of
\* the demo data attached, as they are from startup on: the attach was a
\* repeated one, and the name is in the list once.
C1_Witness ==
    /\ response.req = AddReq(1, "beginner")
    /\ response.status = 200
    /\ tags = {[id |-> 1, name |-> "beginner"], [id |-> 2, name |-> "tutorial"]}
    /\ post_tags = SetToBag({AssocRow(1, 1), AssocRow(1, 2)})
    /\ CountNamed(DB, 1, "beginner") = 1

\* C2: remove_tag_from_post(p, t) for a post p and a tag t that exist, t not
\* attached to p, answers 200 and changes no table.
C2_RemoveUnattachedIsNoop ==
    [][(/\ IsRemove(response')
        /\ response'.req.post_id \in Ids(posts)
        /\ response'.req.tag_id \in Ids(tags)
        /\ ~BagIn(AssocRow(response'.req.post_id, response'.req.tag_id), post_tags))
           => (response'.status = 200 /\ TaggingTablesUnchanged)]_vars

\* C2's case: a tag taken off the post while the other seeded tag is still
\* attached, and a remove of the detached tag answered 200 (a state does not
\* tell the first removal of a tag from the second; the formula is about the
\* step).
C2_Witness ==
    /\ IsRemove(response)
    /\ response.status = 200
    /\ response.req.post_id \in Ids(posts)
    /\ response.req.tag_id \in Ids(tags)
    /\ ~BagIn(AssocRow(response.req.post_id, response.req.tag_id), post_tags)
    /\ "tags" \in DOMAIN response.body
    /\ Len(response.body["tags"]) >= 1

\* The parts of C3.
C3_CreateAnswersNewUser ==
    response'.req.op = "create_user"
        => /\ response'.status = 201
           /\ response'.body["name"] = response'.req.name
           /\ response'.body["posts"] = <<>>
           /\ response'.body["id"] \notin Ids(app_users)
           /\ [id |-> response'.body["id"], name |-> response'.req.name]
                  \in app_users'

C3_NamesStay ==
    \A u \in app_users : \E v \in app_users' : v.name = u.name

C3_ListHasEveryName ==
    response.req.op = "get_users"
        => /\ response.status = 200
           /\ \A u \in app_users :
                  \E i \in 1..Len(response.body) :
                      response.body[i]["name"] = u.name

\* C3: create_user answers 201 with the new user, whose posts list is empty
\* and whose id no existing user has, and the user is stored; a stored name
\* stays stored; get_users lists every stored name.
C3_CreatedUserIsListed ==
    /\ []C3_ListHasEveryName
    /\ [][C3_CreateAnswersNewUser /\ C3_NamesStay]_vars

\* C3's case: users of two names were created and a later get_users lists both.
C3_Witness ==
    /\ response.req.op = "get_users"
    /\ response.status = 200
    /\ \E i, j \in 1..Len(response.body) :
          /\ i < j
          /\ response.body[i]["name"] = "John Doe"
          /\ response.body[j]["name"] = "Jane Roe"

\* The serialization d of a Post holds neither its user's posts nor its tags'
\* posts.
PostDictCut(d) ==
    /\ "user" \in DOMAIN d => "posts" \notin DOMAIN d["user"]
    /\ "tags" \in DOMAIN d =>
          \A i \in 1..Len(d["tags"]) : "posts" \notin DOMAIN d["tags"][i]

\* C4: a Post as returned by get_posts, add_tag_to_post and
\* remove_tag_from_post never holds the post list of its user, nor that of a
\* nested tag.
C4_PostOmitsUserPosts ==
    /\ (response.req.op = "get_posts" /\ response.status = 200)
          => \A i \in 1..Len(response.body) : PostDictCut(response.body[i])
    /\ ((IsAdd(response) \/ IsRemove(response)) /\ response.status = 200)
          => PostDictCut(response.body)

\* C4's case: get_posts returned a post with its user and a tag nested.
C4_Witness ==
    /\ response.req.op = "get_posts"
    /\ response.status = 200
    /\ Len(response.body) >= 1
    /\ "user" \in DOMAIN response.body[1]
    /\ "name" \in DOMAIN response.body[1]["user"]
    /\ "tags" \in DOMAIN response.body[1]
    /\ Len(response.body[1]["tags"]) >= 1

\* C5: a Tag as returned by get_tags never holds nested tags: no post inside
\* a tag's posts list has a tags key.
C5_TagOmitsNestedTags ==
    (response.req.op = "get_tags" /\ response.status = 200)
        => \A i \in 1..Len(response.body) :
              "posts" \in DOMAIN response.body[i] =>
                  \A j \in 1..Len(response.body[i]["posts"]) :
                      "tags" \notin DOMAIN response.body[i]["posts"][j]

\* The parts of C6.
C6_NoDanglingUser ==
    \A p \in posts : p.user_id # NULL => p.user_id \in Ids(users)

C6_PostsGoWithUser ==
    \A u \in users \ users' :
        \A p \in posts : p.user_id = u.id => p.id \notin Ids(posts')

C6_NoPostComesBack == Ids(posts') \subseteq Ids(posts)

\* C6: deleting a User cascades to its Posts.  A step that deletes a user
\* leaves none of the posts that belonged to it, no later step brings a post
\* back, and no post refers to a user that does not exist.
C6_DeleteUserCascades ==
    /\ []C6_NoDanglingUser
    /\ [][C6_PostsGoWithUser /\ C6_NoPostComesBack]_vars

\* C6's case: the demo user was deleted; its post is gone, the tags are not.
C6_Witness ==
    /\ users = {}
    /\ posts = {}
    /\ tags # {}
    /\ post_tags = EmptyBag

\* C7: add_tag_to_post with a post id that names no post, and
\* remove_tag_from_post with a post id or a tag id that names no row, answer
\* 404.
C7_MissingEntityIs404 ==
    [][/\ (IsAdd(response') /\ response'.req.post_id \notin Ids(posts))
             => (response'.status = 404 /\ response'.error = "NotFound")
       /\ (IsRemove(response')
             /\ (\/ response'.req.post_id \notin Ids(posts)
                 \/ response'.req.tag_id \notin Ids(tags)))
             => (response'.status = 404 /\ response'.error = "NotFound")]_vars

\* C7's case: a remove for a post that exists and a tag id that names no tag
\* was answered 404.
C7_Witness ==
    /\ IsRemove(response)
    /\ response.status = 404
    /\ response.req.post_id \in Ids(posts)
    /\ response.req.tag_id \notin Ids(tags)

\* C8: no two Tag rows have the same name, whatever the interleaving of the
\* requests' find-or-create steps.
C8_TagNameUnique ==
    \A t1, t2 \in tags : t1.name = t2.name => t1.id = t2.id

\* C8's case: a thread constructed a Tag for a name it did not find, and
\* before its commit another request committed a tag of that name.
C8_Witness ==
    \E t \in Threads :
        /\ sess[t].pc = "commit"
        /\ IsAdd(sess[t])
        /\ sess[t].new
        /\ \E x \in tags : x.name = sess[t].req.tag_name

\* C9: to_dict on any User, Post or Tag of the tagging service returns, and
\* no response is a RecursionError.
C9_SerializationTerminates ==
    /\ \A u \in users : to_dict("m2m", DB, "User", u).ok
    /\ \A p \in posts : to_dict("m2m", DB, "Post", p).ok
    /\ \A t \in tags : to_dict("m2m", DB, "Tag", t).ok
    /\ response.error # "RecursionError"

\* C9's case: a cycle User - Post - Tag - Post was serialized from a Tag.
C9_Witness ==
    /\ response.req.op = "get_tags"
    /\ response.status = 200
    /\ \E i \in 1..Len(response.body) :
          /\ Len(response.body[i]["posts"]) >= 1
          /\ Len(response.body[i]["posts"][1]["tags"]) >= 2
          /\ "name" \in DOMAIN response.body[i]["posts"][1]["user"]

\* C10: a request answered 404 changes no table.
C10_NotFoundChangesNothing ==
    [][response'.status = 404 => TaggingTablesUnchanged]_vars

\* C10's case: an add for a missing post, with a tag name no tag has, was
\* answered 404.
C10_Witness ==
    /\ IsAdd(response)
    /\ response.status = 404
    /\ response.req.post_id \notin Ids(posts)
    /\ \A t \in tags : t.name # response.req.tag_name

====
